---- MODULE Spec2Model ----
(***************************************************************************)
(* Model of the two scripts of the repository:                             *)
(*   SimulatorBackend/scripts/generateCases.py  (JSON file -> MongoDB)     *)
(*   jules-scratch/verification/verify_navbar.py (browser probe)           *)
(* The ingestion script is modelled with its environment: the input file   *)
(* (as a sequence of JSON tokens) and the document store (a collection of  *)
(* documents with a unique _id).  The two scripts are unrelated programs:  *)
(* a behaviour is the execution of one of them.                            *)
(***************************************************************************)
EXTENDS Integers, Sequences, FiniteSets, TLC

\* ------------------------------------------------------------------ bounds
\* Longest JSON array the input file may hold.
MaxLen == 2
\* Explicit "_id" values an input object may carry are 1..MaxId (0 = no "_id").
MaxId == 1
\* How many times the ingestion script is run in a row.
MaxRuns == 2

\* ------------------------------------------------------- values and tokens
\* One shape for JSON tokens, JSON values and Python values:
\*   t     the kind
\*   id    an object's "_id" (0: the object has no "_id" key)
\*   tag   an object's number of other keys / a string's length / a number's
\*         value / a boolean's truth
\*   items an array's elements
V(t, id, tag, items) == [t |-> t, id |-> id, tag |-> tag, items |-> items]

\* JSON values, as the external case-generation tooling may have written them.
JObj(id, tag) == V("object", id, tag, <<>>)
JStr(n) == V("string", 0, n, <<>>)
JNum(n) == V("number", 0, n, <<>>)
JTrue == V("true", 0, 0, <<>>)
JFalse == V("false", 0, 0, <<>>)
JNull == V("null", 0, 0, <<>>)
JArr(items) == V("array", 0, 0, items)

\* Punctuation tokens of the JSON text.
LBR == V("[", 0, 0, <<>>)
RBR == V("]", 0, 0, <<>>)
COMMA == V(",", 0, 0, <<>>)

\* Python values json.load builds, and None.
None == V("None", 0, 0, <<>>)
PyDict(id, tag) == V("dict", id, tag, <<>>)
PyStr(n) == V("str", 0, n, <<>>)
PyInt(n) == V("int", 0, n, <<>>)
PyBool(b) == V("bool", 0, b, <<>>)
PyList(items) == V("list", 0, 0, items)

SeqsUpTo(S, n) == UNION {[1..k -> S] : k \in 0..n}

JObjects == {JObj(id, tag) : id \in 0..MaxId, tag \in 0..1}
JScalars == {JStr(0), JStr(1), JNum(0), JNum(1), JTrue, JFalse, JNull}
\* Arrays of objects (the documented input format), plus arrays that are valid
\* JSON but hold something else than objects.
JArrays ==
    {JArr(s) : s \in SeqsUpTo(JObjects, MaxLen)}
        \cup {JArr(<<JNum(1)>>), JArr(<<JArr(<<>>)>>), JArr(<<JObj(0, 1), JNum(1)>>)}
JValues == JArrays \cup JObjects \cup JScalars

\* The JSON text of a value, as a token sequence.
RECURSIVE Serialize(_)
RECURSIVE SerializeItems(_, _)
SerializeItems(items, i) ==
    IF i > Len(items) THEN <<>>
    ELSE (IF i = 1 THEN <<>> ELSE <<COMMA>>)
             \o Serialize(items[i]) \o SerializeItems(items, i + 1)

Serialize(v) ==
    IF v.t = "array" THEN <<LBR>> \o SerializeItems(v.items, 1) \o <<RBR>>
    ELSE <<V(v.t, v.id, v.tag, <<>>)>>

\* ------------------------------------------------------------ json.load
\* The Python value of a scalar or object token.
PyOfToken(tok) ==
    CASE tok.t = "object" -> PyDict(tok.id, tok.tag)
      [] tok.t = "string" -> PyStr(tok.tag)
      [] tok.t = "number" -> PyInt(tok.tag)
      [] tok.t = "true" -> PyBool(1)
      [] tok.t = "false" -> PyBool(0)
      [] tok.t = "null" -> None

ParseFail == [ok |-> FALSE, val |-> None, next |-> 0]

\* Recursive-descent parse of one value starting at token i:
\* value := scalar | object | "[" "]" | "[" value ("," value)* "]"
RECURSIVE ParseValue(_, _)
RECURSIVE ParseRest(_, _, _)
ParseRest(toks, i, acc) ==
    \* after an element: "]" ends the array, "," must be followed by a value
    IF i > Len(toks) THEN ParseFail
    ELSE IF toks[i].t = "]" THEN [ok |-> TRUE, val |-> PyList(acc), next |-> i + 1]
    ELSE IF toks[i].t = "," THEN
        LET e == ParseValue(toks, i + 1)
        IN  IF e.ok THEN ParseRest(toks, e.next, Append(acc, e.val)) ELSE ParseFail
    ELSE ParseFail

ParseValue(toks, i) ==
    IF i > Len(toks) THEN ParseFail
    ELSE IF toks[i].t \in {"object", "string", "number", "true", "false", "null"}
        THEN [ok |-> TRUE, val |-> PyOfToken(toks[i]), next |-> i + 1]
    ELSE IF toks[i].t = "[" THEN
        IF i + 1 <= Len(toks) /\ toks[i + 1].t = "]"
        THEN [ok |-> TRUE, val |-> PyList(<<>>), next |-> i + 2]
        ELSE LET e == ParseValue(toks, i + 1)
             IN  IF e.ok THEN ParseRest(toks, e.next, <<e.val>>) ELSE ParseFail
    ELSE ParseFail

\* json.load: the whole text must be one value (no extra data after it).
json_load(toks) ==
    LET r == ParseValue(toks, 1)
    IN  IF r.ok /\ r.next = Len(toks) + 1 THEN r ELSE ParseFail

\* ------------------------------------------------------- Python semantics
\* Values len() accepts; len() of an int, a bool or None raises TypeError.
HasLen(v) == v.t \in {"list", "dict", "str"}

PyLen(v) ==
    CASE v.t = "list" -> Len(v.items)
      [] v.t = "dict" -> (IF v.id # 0 THEN 1 ELSE 0) + v.tag
      [] v.t = "str" -> v.tag

\* Truth value of `if cases:`.
Truthy(v) ==
    CASE v.t = "None" -> FALSE
      [] v.t \in {"list", "dict", "str"} -> PyLen(v) > 0
      [] v.t = "int" -> v.tag # 0
      [] v.t = "bool" -> v.tag = 1

\* The exceptions of the model; all of them derive from Exception.
ExceptionClasses ==
    {"FileNotFoundError", "UnicodeDecodeError", "JSONDecodeError", "TypeError",
     "ConnectionFailure", "ServerSelectionTimeoutError", "BulkWriteError"}

\* A line written to standard output: which print, the count it shows, the
\* exception it shows.
Msg(m, n, e) == [m |-> m, n |-> n, e |-> e]

\* ------------------------------------------------------------ the loader
\* `except Exception` of the loader.
LoaderCatchesOnlyMissingFile(e) == e = "FileNotFoundError"

LoaderCatchesOSAndValueError(e) ==
    e \in {"FileNotFoundError", "UnicodeDecodeError", "JSONDecodeError"}

LoaderCatches(e) == e \in ExceptionClasses

\* What the try block of the loader raises on file f ("none": nothing).
LoaderRaises(f) ==
    IF ~f.exists THEN "FileNotFoundError"
    ELSE IF ~f.utf8 THEN "UnicodeDecodeError"
    ELSE IF ~json_load(f.toks).ok THEN "JSONDecodeError"
    ELSE IF ~HasLen(json_load(f.toks).val) THEN "TypeError"
    ELSE "none"

\* Mutants of the loader: one that drops repeated records, one that answers
\* an empty list for whatever has a length but is no list.
RECURSIVE Dedup(_, _)
Dedup(s, acc) ==
    IF s = <<>> THEN acc
    ELSE IF \E i \in 1..Len(acc) : acc[i] = Head(s) THEN Dedup(Tail(s), acc)
    ELSE Dedup(Tail(s), Append(acc, Head(s)))

load_cases_dedup(f) ==
    LET exc == LoaderRaises(f)
        val == json_load(f.toks).val
        out == IF val.t = "list" THEN PyList(Dedup(val.items, <<>>)) ELSE val
    IN  IF exc = "none"
        THEN [ret |-> out, out |-> <<Msg("loaded", PyLen(out), "none")>>, raised |-> "none"]
        ELSE [ret |-> None, out |-> <<Msg("load_error", 0, exc)>>, raised |-> "none"]

load_cases_lists_only(f) ==
    LET exc == LoaderRaises(f)
        val == json_load(f.toks).val
        out == IF val.t = "list" THEN val ELSE PyList(<<>>)
    IN  IF exc = "none"
        THEN [ret |-> out, out |-> <<Msg("loaded", PyLen(out), "none")>>, raised |-> "none"]
        ELSE [ret |-> None, out |-> <<Msg("load_error", 0, exc)>>, raised |-> "none"]

\* load_cases_from_json(file_path): the value returned, the lines printed, and
\* the exception that leaves the function ("none": it returns normally).
load_cases_from_json(f) ==
    LET exc == LoaderRaises(f)
        val == json_load(f.toks).val
    IN  IF exc = "none"
        THEN [ret |-> val, out |-> <<Msg("loaded", PyLen(val), "none")>>, raised |-> "none"]
        ELSE IF LoaderCatches(exc)
        THEN [ret |-> None, out |-> <<Msg("load_error", 0, exc)>>, raised |-> "none"]
        ELSE [ret |-> None, out |-> <<>>, raised |-> exc]

\* ------------------------------------------------------------- the store
\* A stored document: its _id (generated by the driver, or the record's own)
\* and the rest of its content.
Doc(gen, id, tag) == [gen |-> gen, id |-> id, tag |-> tag]

HasKey(coll, gen, id) == \E i \in 1..Len(coll) : coll[i].gen = gen /\ coll[i].id = id

\* How many of the first n documents carry no "_id" of their own.
RECURSIVE NoIdCount(_, _)
NoIdCount(docs, n) ==
    IF n = 0 THEN 0
    ELSE NoIdCount(docs, n - 1) + (IF docs[n].id = 0 THEN 1 ELSE 0)

\* The ordered bulk write: documents are written one by one, in order, and the
\* first duplicate _id stops the batch; what was written before it stays.
RECURSIVE WriteOrdered(_, _, _, _)
WriteOrdered(coll, docs, i, oid) ==
    IF i > Len(docs) THEN [coll |-> coll, exc |-> "none", n |-> Len(docs)]
    ELSE LET d == IF docs[i].id = 0
                  THEN Doc(TRUE, oid + NoIdCount(docs, i), docs[i].tag)
                  ELSE Doc(FALSE, docs[i].id, docs[i].tag)
         IN  IF HasKey(coll, d.gen, d.id)
             THEN [coll |-> coll, exc |-> "BulkWriteError", n |-> 0]
             ELSE WriteOrdered(Append(coll, d), docs, i + 1, oid)

\* Mutants of the bulk insert: an insert of the first record only, and a write
\* that skips a record whose content the collection already holds.
insert_first_only(coll, cases, oid, up) ==
    IF cases.t # "list" \/ cases.items = <<>>
           \/ \E i \in 1..Len(cases.items) : cases.items[i].t # "dict"
    THEN [coll |-> coll, exc |-> "TypeError", n |-> 0]
    ELSE IF ~up THEN [coll |-> coll, exc |-> "ServerSelectionTimeoutError", n |-> 0]
    ELSE LET r == WriteOrdered(coll, <<cases.items[1]>>, 1, oid)
         IN  [coll |-> r.coll, exc |-> r.exc, n |-> r.n]

RECURSIVE WriteNew(_, _, _, _)
WriteNew(coll, docs, i, oid) ==
    IF i > Len(docs) THEN [coll |-> coll, exc |-> "none", n |-> Len(docs)]
    ELSE IF \E j \in 1..Len(coll) : coll[j].tag = docs[i].tag /\
                (docs[i].id = 0 => coll[j].gen) /\ (docs[i].id # 0 => coll[j].id = docs[i].id)
    THEN WriteNew(coll, docs, i + 1, oid)
    ELSE WriteNew(Append(coll, IF docs[i].id = 0
                               THEN Doc(TRUE, oid + NoIdCount(docs, i), docs[i].tag)
                               ELSE Doc(FALSE, docs[i].id, docs[i].tag)),
                  docs, i + 1, oid)

insert_skipping_known(coll, cases, oid, up) ==
    IF cases.t # "list" \/ cases.items = <<>>
           \/ \E i \in 1..Len(cases.items) : cases.items[i].t # "dict"
    THEN [coll |-> coll, exc |-> "TypeError", n |-> 0]
    ELSE IF ~up THEN [coll |-> coll, exc |-> "ServerSelectionTimeoutError", n |-> 0]
    ELSE WriteNew(coll, cases.items, 1, oid)

\* collection.insert_many(cases) on collection coll, the driver having
\* generated oid identifiers so far, the store reachable or not: the
\* collection afterwards, the exception raised ("none": it returned), and the
\* number of inserted_ids of the result.
insert_many(coll, cases, oid, up) ==
    IF cases.t # "list" \/ cases.items = <<>>
           \/ \E i \in 1..Len(cases.items) : cases.items[i].t # "dict"
    THEN [coll |-> coll, exc |-> "TypeError", n |-> 0]
    ELSE IF ~up THEN [coll |-> coll, exc |-> "ServerSelectionTimeoutError", n |-> 0]
    ELSE WriteOrdered(coll, cases.items, 1, oid)

\* `except Exception` of the publisher.
PublisherCatchesOnlyConnection(e) ==
    e \in {"ConnectionFailure", "ServerSelectionTimeoutError"}

PublisherCatches(e) == e \in ExceptionClasses

\* `if cases:` of the main block.
PublishIfNotNone(c) == c # None

PublishAlways(c) == TRUE

ShouldPublish(c) == Truthy(c)

\* ------------------------------------------------------------------ state
VARIABLES
    script,      \* which of the two scripts is being executed
    file,        \* the input file: exists, decodes as UTF-8, its JSON tokens
    storeUp,     \* the store is reachable during this run
    coll,        \* the target collection, in insertion order
    nextOid,     \* identifiers the driver has generated so far
    pc,          \* the ingestion script's position
    runs,        \* the number of this run (1..MaxRuns)
    cases,       \* main's `cases`: what the loader returned
    pushArg,     \* the publisher's `cases` parameter
    pushCalls,   \* calls of push_cases_to_mongodb in this run
    connects,    \* MongoClient(...) calls in this run
    insertCalls, \* insert_many calls in this run
    log,         \* the lines this run printed
    exitStatus,  \* the process's exit status (-1 while it runs)
    collBefore,  \* the collection as this run found it
    allUp,       \* the store was reachable in every run so far
    bpc,         \* the browser probe's position
    bcalls,      \* the browser calls the probe made, in order
    bexc,        \* an exception is propagating out of the probe's try block
    bexit        \* the probe's exit status (-1 while it runs)

scriptVars == <<script, file, storeUp, coll, nextOid, pc, runs, cases, pushArg, pushCalls,
                connects, insertCalls, log, exitStatus, collBefore, allUp>>
probeVars == <<bpc, bcalls, bexc, bexit>>
vars == <<script, file, storeUp, coll, nextOid, pc, runs, cases, pushArg, pushCalls,
          connects, insertCalls, log, exitStatus, collBefore, allUp,
          bpc, bcalls, bexc, bexit>>

\* The files the script may find.  toks is what the loader reads; json and
\* how record where the text came from (the loader never reads them): it is
\* the JSON text of value json, "whole", "cut" short by a token, or with an
\* "extra" token after it.  A file may also be missing, or not be UTF-8.
Files ==
    {[exists |-> TRUE, utf8 |-> TRUE, toks |-> Serialize(v), json |-> v, how |-> "whole"] :
        v \in JValues}
    \cup {[exists |-> TRUE, utf8 |-> TRUE,
           toks |-> SubSeq(Serialize(v), 1, Len(Serialize(v)) - 1),
           json |-> v, how |-> "cut"] : v \in JValues}
    \cup {[exists |-> TRUE, utf8 |-> TRUE, toks |-> Serialize(v) \o <<COMMA>>,
           json |-> v, how |-> "extra"] : v \in JValues}
    \cup {[exists |-> FALSE, utf8 |-> TRUE, toks |-> <<>>, json |-> JNull, how |-> "missing"],
          [exists |-> TRUE, utf8 |-> FALSE, toks |-> <<>>, json |-> JNull, how |-> "binary"]}

Init ==
    /\ script \in {"generateCases", "verify_navbar"}
    /\ file \in Files
    /\ storeUp \in BOOLEAN
    /\ coll = <<>>
    /\ nextOid = 0
    /\ pc = "start"
    /\ runs = 1
    /\ cases = None
    /\ pushArg = None
    /\ pushCalls = 0
    /\ connects = 0
    /\ insertCalls = 0
    /\ log = <<>>
    /\ exitStatus = -1
    /\ collBefore = <<>>
    /\ allUp = storeUp
    /\ bpc = "launch"
    /\ bcalls = <<>>
    /\ bexc = FALSE
    /\ bexit = -1

\* ---------------------------------------------------- the ingestion script
\* cases = load_cases_from_json(JSON_FILE_PATH)
Load ==
    /\ script = "generateCases"
    /\ pc = "start"
    /\ LET r == load_cases_from_json(file)
       IN  /\ cases' = r.ret
           /\ log' = log \o r.out
           /\ IF r.raised = "none"
              THEN pc' = "guard" /\ exitStatus' = exitStatus
              ELSE pc' = "exited" /\ exitStatus' = 1
    /\ UNCHANGED <<script, file, storeUp, coll, nextOid, runs, pushArg, pushCalls, connects,
                   insertCalls, collBefore, allUp>>
    /\ UNCHANGED probeVars

\* `if cases:` is false: the script ends.
SkipPublish ==
    /\ script = "generateCases"
    /\ pc = "guard"
    /\ ~ShouldPublish(cases)
    /\ pc' = "exited"
    /\ exitStatus' = 0
    /\ UNCHANGED <<script, file, storeUp, coll, nextOid, runs, cases, pushArg, pushCalls,
                   connects, insertCalls, log, collBefore, allUp>>
    /\ UNCHANGED probeVars

\* `if cases:` is true: push_cases_to_mongodb(cases, ...) is entered.
CallPublish ==
    /\ script = "generateCases"
    /\ pc = "guard"
    /\ ShouldPublish(cases)
    /\ pushArg' = cases
    /\ pushCalls' = pushCalls + 1
    /\ pc' = "connect"
    /\ UNCHANGED <<script, file, storeUp, coll, nextOid, runs, cases, connects, insertCalls,
                   log, exitStatus, collBefore, allUp>>
    /\ UNCHANGED probeVars

\* client = MongoClient(mongo_uri); print("Connected ...").  A driver that
\* connects lazily never raises here; one that connects in the constructor
\* raises ConnectionFailure when the store is unreachable.
Connect ==
    /\ script = "generateCases"
    /\ pc = "connect"
    /\ connects' = connects + 1
    /\ \E eager \in BOOLEAN :
          IF eager /\ ~storeUp
          THEN IF PublisherCatches("ConnectionFailure")
               THEN /\ log' = Append(log, Msg("insert_error", 0, "ConnectionFailure"))
                    /\ pc' = "return"
                    /\ exitStatus' = exitStatus
               ELSE /\ log' = log
                    /\ pc' = "exited"
                    /\ exitStatus' = 1
          ELSE /\ log' = Append(log, Msg("connected", 0, "none"))
               /\ pc' = "insert"
               /\ exitStatus' = exitStatus
    /\ UNCHANGED <<script, file, storeUp, coll, nextOid, runs, cases, pushArg, pushCalls,
                   insertCalls, collBefore, allUp>>
    /\ UNCHANGED probeVars

\* result = collection.insert_many(cases); print("Successfully inserted ...")
\* and the except clause around it.
InsertMany ==
    /\ script = "generateCases"
    /\ pc = "insert"
    /\ insertCalls' = insertCalls + 1
    /\ LET r == insert_many(coll, pushArg, nextOid, storeUp)
       IN  /\ coll' = r.coll
           /\ nextOid' = IF r.exc = "TypeError" THEN nextOid
                         ELSE nextOid + NoIdCount(pushArg.items, Len(pushArg.items))
           /\ IF r.exc = "none"
              THEN /\ log' = Append(log, Msg("inserted", r.n, "none"))
                   /\ pc' = "return"
                   /\ exitStatus' = exitStatus
              ELSE IF PublisherCatches(r.exc)
              THEN /\ log' = Append(log, Msg("insert_error", 0, r.exc))
                   /\ pc' = "return"
                   /\ exitStatus' = exitStatus
              ELSE /\ log' = log
                   /\ pc' = "exited"
                   /\ exitStatus' = 1
    /\ UNCHANGED <<script, file, storeUp, runs, cases, pushArg, pushCalls, connects,
                   collBefore, allUp>>
    /\ UNCHANGED probeVars

\* The publisher returns to the main block, whose end is the end of the process.
Exit ==
    /\ script = "generateCases"
    /\ pc = "return"
    /\ pc' = "exited"
    /\ exitStatus' = 0
    /\ UNCHANGED <<script, file, storeUp, coll, nextOid, runs, cases, pushArg, pushCalls,
                   connects, insertCalls, log, collBefore, allUp>>
    /\ UNCHANGED probeVars

\* The script is run again on the same file; the store may have come or gone.
StartRun ==
    /\ script = "generateCases"
    /\ pc = "exited"
    /\ runs < MaxRuns
    /\ runs' = runs + 1
    /\ storeUp' \in BOOLEAN
    /\ allUp' = (allUp /\ storeUp')
    /\ collBefore' = coll
    /\ pc' = "start"
    /\ cases' = None
    /\ pushArg' = None
    /\ pushCalls' = 0
    /\ connects' = 0
    /\ insertCalls' = 0
    /\ log' = <<>>
    /\ exitStatus' = -1
    /\ UNCHANGED <<script, file, coll, nextOid>>
    /\ UNCHANGED probeVars

\* ------------------------------------------------------- the browser probe
\* browser = playwright.chromium.launch()
Launch ==
    /\ script = "verify_navbar"
    /\ bpc = "launch"
    /\ bcalls' = Append(bcalls, "launch")
    /\ \E ok \in BOOLEAN :
          IF ok THEN bpc' = "new_page" /\ bexit' = bexit
          ELSE bpc' = "exited" /\ bexit' = 1
    /\ UNCHANGED bexc
    /\ UNCHANGED scriptVars

\* page = browser.new_page(), before the try block
NewPage ==
    /\ script = "verify_navbar"
    /\ bpc = "new_page"
    /\ bcalls' = Append(bcalls, "new_page")
    /\ \E ok \in BOOLEAN :
          IF ok THEN bpc' = "goto" /\ bexit' = bexit
          ELSE bpc' = "exited" /\ bexit' = 1
    /\ UNCHANGED bexc
    /\ UNCHANGED scriptVars

\* page.goto(...), in the try block
Goto ==
    /\ script = "verify_navbar"
    /\ bpc = "goto"
    /\ bcalls' = Append(bcalls, "goto")
    /\ \E ok \in BOOLEAN :
          IF ok THEN bpc' = "screenshot" /\ bexc' = FALSE
          ELSE bpc' = "finally" /\ bexc' = TRUE
    /\ UNCHANGED bexit
    /\ UNCHANGED scriptVars

\* page.screenshot(...), in the try block
Screenshot ==
    /\ script = "verify_navbar"
    /\ bpc = "screenshot"
    /\ bcalls' = Append(bcalls, "screenshot")
    /\ \E ok \in BOOLEAN : bexc' = ~ok
    /\ bpc' = "finally"
    /\ UNCHANGED bexit
    /\ UNCHANGED scriptVars

\* finally: browser.close(); then the exception of the try block, if any,
\* goes on and ends the process.
Close ==
    /\ script = "verify_navbar"
    /\ bpc = "finally"
    /\ bcalls' = Append(bcalls, "close")
    /\ \E ok \in BOOLEAN : bexit' = IF ok /\ ~bexc THEN 0 ELSE 1
    /\ bpc' = "exited"
    /\ UNCHANGED bexc
    /\ UNCHANGED scriptVars

\* ---------------------------------------------------------- specification
ScriptStep == Load \/ SkipPublish \/ CallPublish \/ Connect \/ InsertMany \/ Exit

ProbeStep == Launch \/ NewPage \/ Goto \/ Screenshot \/ Close

Next ==
    \/ Load
    \/ SkipPublish
    \/ CallPublish
    \/ Connect
    \/ InsertMany
    \/ Exit
    \/ StartRun
    \/ Launch
    \/ NewPage
    \/ Goto
    \/ Screenshot
    \/ Close

Spec == Init /\ [][Next]_vars

\* ------------------------------------------------------------ properties
\* The file exists, decodes, and its text is the whole JSON text of a value.
Readable == file.exists /\ file.utf8 /\ file.how = "whole"

\* The documented input: the file holds a JSON array of objects.
HoldsObjArray ==
    /\ Readable
    /\ file.json.t = "array"
    /\ \A i \in 1..Len(file.json.items) : file.json.items[i].t = "object"

\* The file exists, decodes, and its text is the JSON text of v.
ReadableAs(v) == Readable /\ file.json = v

\* The record a JSON object stands for.
DictOf(o) == PyDict(o.id, o.tag)

LastLog == log[Len(log)]

\* C1: for a file holding a valid JSON array of N objects (duplicates
\* allowed), the loader returns a list of exactly N elements whose i-th
\* element is the i-th object of the file.
C1_LoaderPreservesArray ==
    (HoldsObjArray /\ pc # "start") =>
        LET v == file.json
        IN  /\ cases.t = "list"
            /\ Len(cases.items) = Len(v.items)
            /\ \A i \in 1..Len(v.items) : cases.items[i] = DictOf(v.items[i])

C1_Witness ==
    /\ pc = "guard"
    /\ HoldsObjArray
    /\ Len(file.json.items) = 2
    /\ file.json.items[1] = file.json.items[2]
    /\ Len(cases.items) = 2

\* The exception a failing read or parse of the file raises.
ReadFailure ==
    IF ~file.exists THEN "FileNotFoundError"
    ELSE IF ~file.utf8 THEN "UnicodeDecodeError"
    ELSE IF ~json_load(file.toks).ok THEN "JSONDecodeError"
    ELSE "none"

\* C2: when reading or parsing the file fails (missing file, malformed JSON,
\* encoding error), the loader prints an error line, returns None, and the
\* exception does not leave it (the process is not ended by it).
C2_LoadFailureSwallowed ==
    (pc # "start" /\ ReadFailure # "none") =>
        /\ cases = None
        /\ Len(log) >= 1
        /\ log[1] = Msg("load_error", 0, ReadFailure)
        /\ exitStatus # 1

C2_Witness ==
    /\ pc = "guard"
    /\ ReadFailure = "JSONDecodeError"
    /\ file.toks # <<>>
    /\ cases = None
    /\ log = <<Msg("load_error", 0, "JSONDecodeError")>>

\* C3 as stated: whenever the file's content parses as JSON, whatever the
\* kind of the top-level value, the loader returns the parsed value and
\* prints its length.
C3_Original ==
    (pc # "start" /\ ReadFailure = "none") =>
        /\ cases = json_load(file.toks).val
        /\ log[1].m = "loaded"

\* C3 as amended: when the content parses as a JSON array, object or string,
\* the loader returns the parsed value and prints its length; when it parses
\* as a number, a boolean or null, len() raises TypeError inside the try
\* block, and the loader prints an error line and returns None.  None is
\* returned only when reading or parsing failed or the value has no length.
C3_ReturnsParsedValueWithLength ==
    pc # "start" =>
        LET val == json_load(file.toks).val
        IN  /\ (ReadFailure = "none" /\ val.t \in {"list", "dict", "str"}) =>
                  /\ cases = val
                  /\ log[1] = Msg("loaded",
                                  IF val.t = "list" THEN Len(val.items)
                                  ELSE IF val.t = "str" THEN val.tag
                                  ELSE (IF val.id # 0 THEN 1 ELSE 0) + val.tag,
                                  "none")
            /\ (ReadFailure = "none" /\ val.t \in {"int", "bool", "None"}) =>
                  /\ cases = None
                  /\ log[1] = Msg("load_error", 0, "TypeError")
            /\ cases = None =>
                  \/ ReadFailure # "none"
                  \/ val.t \in {"int", "bool", "None"}

C3_Witness ==
    /\ pc = "guard"
    /\ ReadableAs(JNum(1))
    /\ cases = None
    /\ log = <<Msg("load_error", 0, "TypeError")>>

\* C4: if the loader returned None, the publisher is not invoked in this run
\* (no client is created, no insert is attempted); and when the publisher is
\* invoked, the records it receives are the value the loader returned.
C4_PublishOnlyAfterLoad ==
    /\ (pc # "start" /\ cases = None) =>
           (pushCalls = 0 /\ connects = 0 /\ insertCalls = 0 /\ pushArg = None)
    /\ pushCalls > 0 =>
           (pushArg = cases /\ pushArg = json_load(file.toks).val)

C4_Witness ==
    /\ pc = "exited"
    /\ cases = None
    /\ ReadFailure = "FileNotFoundError"
    /\ Len(log) = 1
    /\ pushCalls = 0

\* The explicit _id of record i repeats that of an earlier record or of a
\* document the collection held.
Clashes(recs, before, i) ==
    /\ recs[i].id # 0
    /\ \/ \E k \in 1..(i - 1) : recs[k].id = recs[i].id
       \/ \E k \in 1..Len(before) : ~before[k].gen /\ before[k].id = recs[i].id

\* A sequence of valid records for a collection: a list of objects none of
\* which clashes.
ValidRecords(c, before) ==
    /\ c.t = "list"
    /\ \A i \in 1..Len(c.items) : c.items[i].t = "dict"
    /\ \A i \in 1..Len(c.items) : ~Clashes(c.items, before, i)

\* The publisher has been called in this run and is over.
PublishOver == pushCalls = 1 /\ pc \in {"return", "exited"}

FirstClash(recs, before) ==
    IF \E i \in 1..Len(recs) : Clashes(recs, before, i)
    THEN CHOOSE i \in 1..Len(recs) :
             /\ Clashes(recs, before, i)
             /\ \A k \in 1..(i - 1) : ~Clashes(recs, before, k)
    ELSE Len(recs) + 1

\* C6: when the publisher fails (store unreachable, records the store
\* rejects, duplicate key), it prints an error line and returns normally; it
\* calls the bulk insert at most once, prints no inserted count, and what the
\* store wrote before the failure stays written.
C6_PublishFailureSwallowed ==
    /\ insertCalls <= 1
    /\ (PublishOver /\ ~(storeUp /\ ValidRecords(pushArg, collBefore))) =>
           /\ exitStatus # 1
           /\ LastLog.m = "insert_error"
           /\ LastLog.e \in {"ConnectionFailure", "ServerSelectionTimeoutError",
                             "TypeError", "BulkWriteError"}
           /\ \A i \in 1..Len(log) : log[i].m # "inserted"
           /\ SubSeq(coll, 1, Len(collBefore)) = collBefore
           /\ LastLog.e = "BulkWriteError" =>
                  Len(coll) = Len(collBefore) + FirstClash(pushArg.items, collBefore) - 1

C6_Witness ==
    /\ pc = "return"
    /\ pushCalls = 1
    /\ LastLog = Msg("insert_error", 0, "BulkWriteError")
    /\ Len(coll) > Len(collBefore)

\* How far a position is from the start of the script.
PcRank(p) ==
    CASE p = "start" -> 0
      [] p = "guard" -> 1
      [] p = "connect" -> 2
      [] p = "insert" -> 3
      [] p = "return" -> 4
      [] p = "exited" -> 5

\* C7: every run of the script ends, and ends with exit status 0, whether
\* the load succeeded or failed and whether the publish succeeded, failed or
\* was skipped.  Stated for a finite run: the exit status of an ended run is
\* 0, a run that has not ended can always take a step, and every step takes
\* it nearer to its end (so a run the interpreter keeps executing ends after
\* at most five steps).
C7_AlwaysExitsZero ==
    /\ [](pc = "exited" => exitStatus = 0)
    /\ []((script = "generateCases" /\ pc # "exited") => ENABLED ScriptStep)
    /\ [][ScriptStep => PcRank(pc') > PcRank(pc)]_vars

C7_Witness ==
    /\ pc = "exited"
    /\ exitStatus = 0
    /\ pushCalls = 1
    /\ LastLog.m = "insert_error"

\* C8 as stated: k runs on the same valid file of N records against a
\* reachable store leave k*N documents, whatever the records hold.
C8_Original ==
    (HoldsObjArray /\ allUp /\ pc = "exited") =>
        Len(coll) = runs * Len(file.json.items)

\* C8 as amended: the k*N documents are there when no record carries an
\* "_id" of its own (the store then gives every inserted copy a new one).
\* Records that all carry distinct "_id"s are inserted by the first run only:
\* every later run stops at the first duplicate key and adds nothing.
C8_ReinsertsRecordsWithoutId ==
    (HoldsObjArray /\ allUp /\ pc = "exited") =>
            LET v == file.json
                n == Len(v.items)
            IN  /\ (\A i \in 1..n : v.items[i].id = 0) =>
                      /\ Len(coll) = runs * n
                      /\ \A r \in 0..(runs - 1) : \A i \in 1..n :
                            coll[r * n + i].tag = v.items[i].tag
                      /\ \A a, b \in 1..Len(coll) :
                            a # b => coll[a].id # coll[b].id
                /\ (/\ \A i \in 1..n : v.items[i].id # 0
                    /\ \A i, j \in 1..n : i # j => v.items[i].id # v.items[j].id) =>
                      Len(coll) = n

C8_Witness ==
    /\ pc = "exited"
    /\ runs = 2
    /\ allUp
    /\ ReadableAs(JArr(<<JObj(0, 1), JObj(0, 1)>>))
    /\ Len(coll) = 4

\* The browser was launched: chromium.launch() returned.
Launched == Len(bcalls) >= 2 \/ (Len(bcalls) = 1 /\ bpc # "exited")

CloseCount == Cardinality({i \in 1..Len(bcalls) : bcalls[i] = "close"})

\* C9: in every run of the probe where the browser was launched,
\* browser.close() has been called exactly once when the run is over, whether
\* opening the page, navigating and taking the screenshot succeeded or
\* raised; and the calls come in the order launch, navigate, screenshot, close.
C9_CloseGuaranteed ==
    /\ (bpc = "exited" /\ Launched) => CloseCount = 1
    /\ \A i, j \in 1..Len(bcalls) :
          (i < j) => <<bcalls[i], bcalls[j]>> \in
              {<<"launch", "new_page">>, <<"launch", "goto">>, <<"launch", "screenshot">>,
               <<"launch", "close">>, <<"new_page", "goto">>, <<"new_page", "screenshot">>,
               <<"new_page", "close">>, <<"goto", "screenshot">>, <<"goto", "close">>,
               <<"screenshot", "close">>}

\* The values the loader can return that are empty without being None.
EmptyResults == {PyList(<<>>), PyDict(0, 0), PyStr(0)}

\* C10: the publisher is invoked exactly when the loader's result is truthy.
\* A load that succeeds with an empty array (or an empty object or string)
\* is treated like a failed load: no client is created, no insert is
\* attempted, nothing is printed after the loader's "loaded 0 cases" line.
C10_EmptyLoadSkipsPublish ==
    pc \notin {"start", "guard"} =>
        /\ (pushCalls = 1) <=> ~(cases = None \/ cases \in EmptyResults)
        /\ (pushCalls = 0) <=> (cases = None \/ cases \in EmptyResults)
        /\ cases \in EmptyResults =>
              /\ connects = 0
              /\ insertCalls = 0
              /\ coll = collBefore
              /\ log = <<Msg("loaded", 0, "none")>>
              /\ pc = "exited"
              /\ exitStatus = 0

C10_Witness ==
    /\ pc = "exited"
    /\ ReadableAs(JArr(<<>>))
    /\ cases = PyList(<<>>)
    /\ log = <<Msg("loaded", 0, "none")>>
    /\ pushCalls = 0

====
